---- MODULE Spec2Model ----
(***************************************************************************)
(* A model of extrair_matriz.py: the extraction of lockout/tagout energy   *)
(* matrix records from worksheets (normalize_cell, join_valid, get_group,  *)
(* row_has_any_data, row_has_footer_marker, process_workbook), the .xls    *)
(* conversion through Excel (convert_xls_to_xlsx) and the batch driver     *)
(* (main).                                                                 *)
(*                                                                         *)
(* Text is a sequence of characters.  A character is a one-character       *)
(* string; the characters outside ASCII are written as named tokens        *)
(* ("<em-dash>", "<E-circumflex>", ...).  Python's None is the value None; *)
(* a str is Str(s); an int is IntV(n); a float is FloatV(w, d), the number *)
(* w + d/10.                                                               *)
(*                                                                         *)
(* An operator that walks a sequence does so through a local function of   *)
(* the sequence (LET f[t \in Seq(STRING)] == ... IN f[s]), and the loop    *)
(* body binds its locals with \E x \in {e}: a function is applied to, and  *)
(* a bound variable stands for, the value of the expression, so each text  *)
(* is computed once, as in the code.                                       *)
(***************************************************************************)
EXTENDS Integers, Sequences, FiniteSets, TLC

\* ------------------------------------------------------------------ values

None == [t |-> "None"]
Str(s) == [t |-> "str", s |-> s]
IntV(n) == [t |-> "int", n |-> n]
FloatV(w, d) == [t |-> "float", w |-> w, d |-> d]
BoolV(b) == [t |-> "bool", b |-> b]

\* The characters Python's \s matches and str.strip() strips, among those the
\* model's inputs use.
Whitespace == {" ", "\n", "\r", "\t"}

LowerLetters ==
  <<"a", "b", "c", "d", "e", "f", "g", "h", "i", "j", "k", "l", "m", "n", "o",
    "p", "q", "r", "s", "t", "u", "v", "w", "x", "y", "z",
    "<a-acute>", "<e-circumflex>">>

UpperLetters ==
  <<"A", "B", "C", "D", "E", "F", "G", "H", "I", "J", "K", "L", "M", "N", "O",
    "P", "Q", "R", "S", "T", "U", "V", "W", "X", "Y", "Z",
    "<A-acute>", "<E-circumflex>">>

\* str.lower() and str.upper(), character by character.
UpperToLower ==
  [c \in {UpperLetters[k] : k \in 1..Len(UpperLetters)} |->
     LowerLetters[CHOOSE k \in 1..Len(UpperLetters) : UpperLetters[k] = c]]

LowerToUpper ==
  [c \in {LowerLetters[k] : k \in 1..Len(LowerLetters)} |->
     UpperLetters[CHOOSE k \in 1..Len(LowerLetters) : LowerLetters[k] = c]]

LowerChar(c) == IF c \in DOMAIN UpperToLower THEN UpperToLower[c] ELSE c

UpperChar(c) == IF c \in DOMAIN LowerToUpper THEN LowerToUpper[c] ELSE c

Lower(s) ==
  LET lower[t \in Seq(STRING)] == [k \in 1..Len(t) |-> LowerChar(t[k])] IN lower[s]

Upper(s) ==
  LET upper[t \in Seq(STRING)] == [k \in 1..Len(t) |-> UpperChar(t[k])] IN upper[s]

Digits == <<"0", "1", "2", "3", "4", "5", "6", "7", "8", "9">>

\* str(n) of a non-negative int.
RECURSIVE NatStr(_)
NatStr(n) ==
  IF n < 10 THEN <<Digits[n + 1]>> ELSE NatStr(n \div 10) \o <<Digits[(n % 10) + 1]>>

\* str(n) of an int.
IntStr(n) == IF n < 0 THEN <<"-">> \o NatStr(-n) ELSE NatStr(n)

\* s.replace("\n", " ").replace("\r", " ")
ReplaceNewlines(s) ==
  [k \in 1..Len(s) |-> IF s[k] \in {"\n", "\r"} THEN " " ELSE s[k]]

DropLeadingSpace(s) ==
  LET drop[t \in Seq(STRING)] ==
        IF t # <<>> /\ Head(t) \in Whitespace THEN drop[Tail(t)] ELSE t
  IN  drop[s]

\* re.sub(r"\s+", " ", s): every maximal run of whitespace becomes one space.
CollapseWhitespace(s) ==
  LET collapse[t \in Seq(STRING)] ==
        IF t = <<>> THEN <<>>
        ELSE IF Head(t) \in Whitespace
             THEN <<" ">> \o collapse[DropLeadingSpace(Tail(t))]
             ELSE <<Head(t)>> \o collapse[Tail(t)]
  IN  collapse[s]

DropTrailingSpace(s) ==
  LET drop[t \in Seq(STRING)] ==
        IF t # <<>> /\ t[Len(t)] \in Whitespace
        THEN drop[SubSeq(t, 1, Len(t) - 1)]
        ELSE t
  IN  drop[s]

\* str.strip()
Strip(s) == DropTrailingSpace(DropLeadingSpace(s))

\* sep.join(parts)
Join(parts, sep) ==
  LET join[p \in Seq(Seq(STRING))] ==
        IF p = <<>> THEN <<>>
        ELSE IF Len(p) = 1 THEN p[1]
        ELSE p[1] \o sep \o join[Tail(p)]
  IN  join[parts]

\* needle in hay
Contains(hay, needle) ==
  LET found[h \in Seq(STRING)] ==
        \E k \in 0..(Len(h) - Len(needle)) :
          \A j \in 1..Len(needle) : h[k + j] = needle[j]
  IN  found[hay]

Range(f) == {f[k] : k \in DOMAIN f}

\* ----------------------------------------------------------- configuration

START_ROW == 11
XLS_CONVERT_TIMEOUT_SEC == 40

COLS_EQUIP_TAG == <<"B">>
COLS_EQUIP_DESC == <<"C", "D">>
COLS_FONTE_TAG == <<"E", "F", "G">>
COLS_FONTE_DESC == <<"H", "I", "J", "K", "L">>
COLS_COMO_BLOQUEAR == <<"M", "N">>
COLS_ONDE_BLOQUEAR == <<"O", "P", "Q", "R", "S">>
COLS_TIPO_BLOQUEIO == <<"T", "U">>
COLS_COMO_DESBLOQUEAR == <<"Z", "AA">>

\* sorted(set(...)): only membership is used (row_has_any_data).
ALL_RELEVANT_COLS ==
  Range(COLS_EQUIP_TAG) \cup Range(COLS_EQUIP_DESC) \cup Range(COLS_FONTE_TAG)
    \cup Range(COLS_FONTE_DESC) \cup Range(COLS_COMO_BLOQUEAR)
    \cup Range(COLS_ONDE_BLOQUEAR) \cup Range(COLS_TIPO_BLOQUEIO)
    \cup Range(COLS_COMO_DESBLOQUEAR)

EMPTY_TOKENS ==
  { <<"-">>, <<"<em-dash>">>, <<"<en-dash>">>, <<"n", "/", "a">>, <<"n", "a">>,
    <<"n", "u", "l", "l">>, <<"n", "o", "n", "e">> }

FOOTER_KEYWORDS ==
  << <<"L", "E", "G", "E", "N", "D", "A">>,
     <<"E", "L", "A", "B", "O", "R", "A", "D", "O", "R">>,
     <<"R", "E", "V", "I", "S", "O", "R">>,
     <<"A", "P", "R", "O", "V", "A", "D", "O", "R">>,
     <<"P", "R", "O", "V", "I", "D", "E", "N", "C", "I", "A", "S">>,
     <<"P", "R", "O", "V", "I", "D", "<E-circumflex>", "N", "C", "I", "A", "S">>,
     <<"D", "I", "S", "P", "O", "S", "I", "T", "I", "V", "O">>,
     <<"L", "A", "Y", "O", "U", "T">>,
     <<"P", "<A-acute>", "G", "I", "N", "A">>,
     <<"P", "A", "G", "I", "N", "A">> >>

\* The columns of a worksheet, A to AA.
Columns ==
  {"A", "B", "C", "D", "E", "F", "G", "H", "I", "J", "K", "L", "M", "N", "O",
   "P", "Q", "R", "S", "T", "U", "V", "W", "X", "Y", "Z", "AA"}

\* --------------------------------------------------------------- utilities

\* A str(value) that prints a whole float as Python prints a float ("3.0").
ToText_FloatRepr(value) ==
  CASE value.t = "str" -> value.s
    [] value.t = "int" -> IntStr(value.n)
    [] value.t = "float" -> IntStr(value.w) \o <<".">> \o <<Digits[value.d + 1]>>

\* str(value) of lines 97-102: a whole float prints as its int.
ToText(value) ==
  CASE value.t = "str" -> value.s
    [] value.t = "int" -> IntStr(value.n)
    [] value.t = "float" ->
         IF value.d = 0 THEN IntStr(value.w)
         ELSE IntStr(value.w) \o <<".">> \o <<Digits[value.d + 1]>>

\* A normalize_cell that compares with the sentinel tokens case-sensitively.
normalize_cell_CaseSensitive(value) ==
  IF value = None THEN None
  ELSE LET s == Strip(CollapseWhitespace(ReplaceNewlines(ToText(value)))) IN
       IF s = <<>> THEN None
       ELSE IF s \in EMPTY_TOKENS THEN None
       ELSE Str(s)

\* A normalize_cell that tests for a sentinel token before it strips the text.
normalize_cell_StripLast(value) ==
  IF value = None THEN None
  ELSE LET s == CollapseWhitespace(ReplaceNewlines(ToText(value))) IN
       IF Strip(s) = <<>> THEN None
       ELSE IF Lower(s) \in EMPTY_TOKENS THEN None
       ELSE Str(Strip(s))

normalize_cell(value) ==
  IF value = None THEN None
  ELSE LET result[s \in Seq(STRING)] ==
             IF s = <<>> THEN None
             ELSE IF Lower(s) \in EMPTY_TOKENS THEN None
             ELSE Str(s)
       IN  result[Strip(CollapseWhitespace(ReplaceNewlines(ToText(value))))]

\* The list `parts` of join_valid: the normalized values that are not None.
ValidParts(values) ==
  LET parts[k \in Nat] ==
        IF k > Len(values) THEN <<>>
        ELSE LET nv == normalize_cell(values[k]) IN
             IF nv # None THEN <<nv.s>> \o parts[k + 1]
             ELSE parts[k + 1]
  IN  parts[1]

\* A join_valid that ignores its separator.
join_valid_NoSeparator(values, sep) ==
  LET parts == ValidParts(values) IN
  IF parts = <<>> THEN None
  ELSE LET out == Strip(CollapseWhitespace(Join(parts, <<>>))) IN
       IF out = <<>> THEN None ELSE Str(out)

join_valid(values, sep) ==
  LET joined[parts \in Seq(Seq(STRING))] ==
        IF parts = <<>> THEN None
        ELSE LET out == Strip(CollapseWhitespace(Join(parts, sep))) IN
             IF out = <<>> THEN None ELSE Str(out)
  IN  joined[ValidParts(values)]

\* ws[f"{c}{row}"].value.  A worksheet holds its cells sparsely: ws.rows maps
\* the row numbers that hold cells to rows, a row maps the columns that hold a
\* cell to its value, and any other cell reads as None.
Cell(ws, c, row) ==
  IF row \in DOMAIN ws.rows /\ c \in DOMAIN ws.rows[row] THEN ws.rows[row][c] ELSE None

get_group(ws, row, cols) ==
  join_valid([k \in 1..Len(cols) |-> Cell(ws, cols[k], row)], <<" ">>)

\* A row_has_any_data that looks at every column of the worksheet.
row_has_any_data_AllColumns(ws, row) ==
  ~(\A c \in Columns : normalize_cell(Cell(ws, c, row)) = None)

row_has_any_data(ws, row) ==
  ~(\A c \in ALL_RELEVANT_COLS : normalize_cell(Cell(ws, c, row)) = None)

CheckCols == <<"A", "B", "C", "D", "E", "H", "M", "O", "T", "Z", "AA">>

\* The list `texts` of row_has_footer_marker.
FooterTexts(ws, row, cols) ==
  LET texts[k \in Nat] ==
        IF k > Len(cols) THEN <<>>
        ELSE LET v == normalize_cell(Cell(ws, cols[k], row)) IN
             IF v # None THEN <<Upper(v.s)>> \o texts[k + 1]
             ELSE texts[k + 1]
  IN  texts[1]

\* A row_has_footer_marker that joins the texts with nothing between them.
row_has_footer_marker_NoSeparator(ws, row) ==
  LET texts == FooterTexts(ws, row, CheckCols) IN
  IF texts = <<>> THEN FALSE
  ELSE LET joined == Join(texts, <<>>) IN
       ~(\A k \in 1..Len(FOOTER_KEYWORDS) : ~Contains(joined, FOOTER_KEYWORDS[k]))

row_has_footer_marker(ws, row) ==
  LET texts == FooterTexts(ws, row, CheckCols)
      any[joined \in Seq(STRING)] ==
        ~(\A k \in 1..Len(FOOTER_KEYWORDS) : ~Contains(joined, FOOTER_KEYWORDS[k]))
  IN  IF texts = <<>> THEN FALSE
      ELSE any[Join(texts, <<" ", "|", " ">>)]

\* ------------------------------------------------------------------ state

VARIABLES
  files,            \* main: the list list_input_files() returned
  has_pywin32,      \* whether `import win32com.client` succeeds on this machine
  converted_dir,    \* CONVERTED_DIR: stem -> None, or the workbook saved there
  pc,               \* the statement the program is at
  i,                \* main: 1-based index of the file being processed
  all_records,      \* main
  processed,        \* main
  converted,        \* main
  failed,           \* main: list of <<file name, error text>>
  excel,            \* convert_xls_to_xlsx: the Excel process of this call
  elapsed,          \* convert_xls_to_xlsx: time.time() - started at line 210
  path_xlsx,        \* process_workbook: argument
  source_file_name, \* process_workbook: argument
  ws,               \* process_workbook: wb.worksheets[0]
  records,          \* process_workbook
  last_equip_tag,   \* process_workbook
  last_equip_desc,  \* process_workbook
  max_row,          \* process_workbook
  r,                \* process_workbook: the loop variable
  rec_rows,         \* history: the row each element of records was read from
  origin,           \* history: <<file index, row>> of each element of all_records
  attempts,         \* history: per file attempted, [file, err, recs]
  call,             \* a single call of a utility function: its name and arguments
  ret               \* the value that call returned, Pending before it ran

\* What no statement of main, convert_xls_to_xlsx or process_workbook changes.
fixedVars == <<files, has_pywin32, call, ret>>
mainVars == <<fixedVars, converted_dir, i, all_records, processed, converted, failed>>
convVars == <<excel, elapsed>>
pwArgs == <<path_xlsx, source_file_name, ws>>
pwVars == <<records, last_equip_tag, last_equip_desc, max_row, r, rec_rows>>
histVars == <<origin, attempts>>
vars == <<mainVars, pc, convVars, pwArgs, pwVars, histVars>>

Pending == [t |-> "pending"]
NoCall == [fn |-> "none"]

\* ------------------------------------------------------- process_workbook

K_EQUIP_TAG == "Tag do Equipamento"
K_EQUIP_DESC == "Descricao do Equipamento"
K_FONTE_TAG == "Tag da Fonte de Energia"
K_FONTE_DESC == "Descricao da Fonte de Energia"
K_COMO_BLOQUEAR == "Como Bloquear"
K_ONDE_BLOQUEAR == "Onde Bloquear / TAG"
K_TIPO_BLOQUEIO == "Tipo de Bloqueio"
K_COMO_DESBLOQUEAR == "Como Desbloquear"
K_ORIGEM == "Arquivo de Origem"

\* The keys has_source_info looks at (lines 302-309).
SourceKeys ==
  <<K_FONTE_TAG, K_FONTE_DESC, K_COMO_BLOQUEAR, K_ONDE_BLOQUEAR, K_TIPO_BLOQUEIO,
    K_COMO_DESBLOQUEAR>>

\* A fill-down that keeps nothing from the rows above.
FillDown_NoCarry(current, last) == current

\* Lines 271-279: the value a fill-down column takes on a row, which is also the
\* value stored for the rows below.
FillDown(current, last) == IF current = None THEN last ELSE current

\* A record whose how-to-unlock field is read from the how-to-lock columns.
MakeRecord_WrongCols(name, equip_tag, equip_desc, sheet, row) ==
  (K_ORIGEM :> name)
    @@ (K_EQUIP_TAG :> equip_tag)
    @@ (K_EQUIP_DESC :> equip_desc)
    @@ (K_FONTE_TAG :> get_group(sheet, row, COLS_FONTE_TAG))
    @@ (K_FONTE_DESC :> get_group(sheet, row, COLS_FONTE_DESC))
    @@ (K_COMO_BLOQUEAR :> get_group(sheet, row, COLS_COMO_BLOQUEAR))
    @@ (K_ONDE_BLOQUEAR :> get_group(sheet, row, COLS_ONDE_BLOQUEAR))
    @@ (K_TIPO_BLOQUEIO :> get_group(sheet, row, COLS_TIPO_BLOQUEIO))
    @@ (K_COMO_DESBLOQUEAR :> get_group(sheet, row, COLS_COMO_BLOQUEAR))

\* Lines 281-298: the record of row `row`, its equipment fields already filled down.
MakeRecord(name, equip_tag, equip_desc, sheet, row) ==
  (K_ORIGEM :> name)
    @@ (K_EQUIP_TAG :> equip_tag)
    @@ (K_EQUIP_DESC :> equip_desc)
    @@ (K_FONTE_TAG :> get_group(sheet, row, COLS_FONTE_TAG))
    @@ (K_FONTE_DESC :> get_group(sheet, row, COLS_FONTE_DESC))
    @@ (K_COMO_BLOQUEAR :> get_group(sheet, row, COLS_COMO_BLOQUEAR))
    @@ (K_ONDE_BLOQUEAR :> get_group(sheet, row, COLS_ONDE_BLOQUEAR))
    @@ (K_TIPO_BLOQUEIO :> get_group(sheet, row, COLS_TIPO_BLOQUEIO))
    @@ (K_COMO_DESBLOQUEAR :> get_group(sheet, row, COLS_COMO_DESBLOQUEAR))

\* A filter that also counts the two equipment fields.
has_source_info_AnyField(record) ==
  ~(\A k \in DOMAIN record : k = K_ORIGEM \/ record[k] = None)

\* Lines 300-310.
has_source_info(record) ==
  ~(\A k \in 1..Len(SourceKeys) : record[SourceKeys[k]] = None)

\* Line 259: ws.max_row or START_ROW.
MaxRowOf(sheet) == IF sheet.max_row = 0 THEN START_ROW ELSE sheet.max_row

\* A call that starts from the fill-down state the previous call left.
PWInit_NoReset ==
  /\ pc = "pw_init"
  /\ records' = <<>>
  /\ rec_rows' = <<>>
  /\ max_row' = MaxRowOf(ws)
  /\ r' = START_ROW
  /\ pc' = "pw_loop"
  /\ UNCHANGED <<mainVars, convVars, pwArgs, histVars, last_equip_tag, last_equip_desc>>

\* Lines 255-259: the locals before the loop.
PWInit ==
  /\ pc = "pw_init"
  /\ records' = <<>>
  /\ rec_rows' = <<>>
  /\ last_equip_tag' = None
  /\ last_equip_desc' = None
  /\ max_row' = MaxRowOf(ws)
  /\ r' = START_ROW
  /\ pc' = "pw_loop"
  /\ UNCHANGED <<mainVars, convVars, pwArgs, histVars>>

\* A loop that skips a footer row instead of stopping at it.
RowVerdict_FooterSkipped(sheet, row) ==
  IF row_has_footer_marker(sheet, row) THEN "skip"
  ELSE IF ~row_has_any_data(sheet, row) THEN "skip"
  ELSE "data"

\* A loop that tests for a row without data before it tests for a footer marker.
RowVerdict_BlankFirst(sheet, row) ==
  IF ~row_has_any_data(sheet, row) THEN "skip"
  ELSE IF row_has_footer_marker(sheet, row) THEN "break"
  ELSE "data"

\* Lines 262-266: what the loop does with a row: "break" at a footer marker,
\* "skip" a row without data, otherwise treat it as "data".
RowVerdict(sheet, row) ==
  IF row_has_footer_marker(sheet, row) THEN "break"
  ELSE IF ~row_has_any_data(sheet, row) THEN "skip"
  ELSE "data"

\* A loop body that stores the fill-down values only of the rows it appends.
PWLoopBody_UpdateAfterFilter ==
  /\ pc = "pw_loop"
  /\ r <= max_row
  /\ LET verdict == RowVerdict(ws, r) IN
     IF verdict = "break"
     THEN /\ pc' = "pw_return"
          /\ UNCHANGED pwVars
     ELSE IF verdict = "skip"
     THEN /\ r' = r + 1
          /\ UNCHANGED <<pc, records, last_equip_tag, last_equip_desc, max_row, rec_rows>>
     ELSE \E equip_tag \in {FillDown(get_group(ws, r, COLS_EQUIP_TAG), last_equip_tag)} :
          \E equip_desc \in {FillDown(get_group(ws, r, COLS_EQUIP_DESC), last_equip_desc)} :
          \E record \in {MakeRecord(source_file_name, equip_tag, equip_desc, ws, r)} :
              /\ IF has_source_info(record)
                 THEN /\ records' = Append(records, record)
                      /\ rec_rows' = Append(rec_rows, r)
                      /\ last_equip_tag' = equip_tag
                      /\ last_equip_desc' = equip_desc
                 ELSE UNCHANGED <<records, rec_rows, last_equip_tag, last_equip_desc>>
              /\ r' = r + 1
              /\ UNCHANGED <<pc, max_row>>
  /\ UNCHANGED <<mainVars, convVars, pwArgs, histVars>>

\* A loop body whose `continue` on a row without data does not reach the next row.
PWLoopBody_SkipStalls ==
  /\ pc = "pw_loop"
  /\ r <= max_row
  /\ LET verdict == RowVerdict(ws, r) IN
     IF verdict = "break"
     THEN /\ pc' = "pw_return"
          /\ UNCHANGED pwVars
     ELSE IF verdict = "skip"
     THEN UNCHANGED <<pc, pwVars>>
     ELSE \E equip_tag \in {FillDown(get_group(ws, r, COLS_EQUIP_TAG), last_equip_tag)} :
          \E equip_desc \in {FillDown(get_group(ws, r, COLS_EQUIP_DESC), last_equip_desc)} :
          \E record \in {MakeRecord(source_file_name, equip_tag, equip_desc, ws, r)} :
              /\ last_equip_tag' = equip_tag
              /\ last_equip_desc' = equip_desc
              /\ IF has_source_info(record)
                 THEN /\ records' = Append(records, record)
                      /\ rec_rows' = Append(rec_rows, r)
                 ELSE UNCHANGED <<records, rec_rows>>
              /\ r' = r + 1
              /\ UNCHANGED <<pc, max_row>>
  /\ UNCHANGED <<mainVars, convVars, pwArgs, histVars>>

\* Lines 261-314, one iteration of the loop: break at a footer marker (262-263),
\* skip a row without data (265-266), otherwise update the fill-down state
\* (268-279) and append the record when it has source info (281-314).
PWLoopBody ==
  /\ pc = "pw_loop"
  /\ r <= max_row
  /\ LET verdict == RowVerdict(ws, r) IN
     IF verdict = "break"
     THEN /\ pc' = "pw_return"
          /\ UNCHANGED pwVars
     ELSE IF verdict = "skip"
     THEN /\ r' = r + 1
          /\ UNCHANGED <<pc, records, last_equip_tag, last_equip_desc, max_row, rec_rows>>
     ELSE \E equip_tag \in {FillDown(get_group(ws, r, COLS_EQUIP_TAG), last_equip_tag)} :
          \E equip_desc \in {FillDown(get_group(ws, r, COLS_EQUIP_DESC), last_equip_desc)} :
          \E record \in {MakeRecord(source_file_name, equip_tag, equip_desc, ws, r)} :
              /\ last_equip_tag' = equip_tag
              /\ last_equip_desc' = equip_desc
              /\ IF has_source_info(record)
                 THEN /\ records' = Append(records, record)
                      /\ rec_rows' = Append(rec_rows, r)
                 ELSE UNCHANGED <<records, rec_rows>>
              /\ r' = r + 1
              /\ UNCHANGED <<pc, max_row>>
  /\ UNCHANGED <<mainVars, convVars, pwArgs, histVars>>

\* Lines 261, 316: the range is exhausted; return records.
PWLoopEnd ==
  /\ pc = "pw_loop"
  /\ r > max_row
  /\ pc' = "pw_return"
  /\ UNCHANGED <<mainVars, convVars, pwArgs, pwVars, histVars>>

\* ----------------------------------------------------------------- inputs

MaxRows == 4

BlankRow == [c \in {} |-> None]

\* The row whose cells are those of `cells` (column :> value @@ ...).
Row(cells) == [c \in DOMAIN cells \cap Columns |-> cells[c]]

\* Equipment tag " E1" and description "P" + "1", no energy source.
R_EquipOnly ==
  Row(("B" :> Str(<<" ", "E", "1">>)) @@ ("C" :> Str(<<"P">>)) @@ ("D" :> IntV(1)))

\* Equipment tag "E2" and how-to-lock "V\nA" + 3.0.
R_EquipSrc ==
  Row(("B" :> Str(<<"E", "2">>)) @@ ("M" :> Str(<<"V", "\n", "A">>))
        @@ ("N" :> FloatV(3, 0)))

\* How-to-unlock "Op" + "-", equipment cells empty (a merged cell's lower rows).
R_SrcOnly == Row(("Z" :> Str(<<"O", "p">>)) @@ ("AA" :> Str(<<"-">>)))

\* Source description "Rede" + "-" + "Layout" (a footer keyword in a column that
\* is no marker column), an equipment description of its own, a sentinel as
\* equipment tag.
R_Rede ==
  Row(("B" :> Str(<<"n", "/", "a">>)) @@ ("D" :> Str(<<"M">>))
        @@ ("H" :> Str(<<"R", "e", "d", "e">>)) @@ ("I" :> Str(<<"-">>))
        @@ ("J" :> Str(<<"L", "a", "y", "o", "u", "t">>)))

\* A footer keyword in column A alone.
R_FooterA == Row("A" :> Str(<<"L", "e", "g", "e", "n", "d", "a", ":">>))

\* A footer keyword in a marker column of a row that also holds valid data.
R_FooterData ==
  Row(("B" :> Str(<<"E", "3">>)) @@ ("H" :> Str(<<"l", "a", "y", "o", "u", "t">>))
        @@ ("T" :> IntV(2)))

SheetRows ==
  {BlankRow, R_EquipOnly, R_EquipSrc, R_SrcOnly, R_Rede, R_FooterA, R_FooterData}

\* sheet is a worksheet of at most n rows from START_ROW on, each row from
\* rowset, or a worksheet with no row at START_ROW or below (ws.max_row 0, or the
\* header rows only).
IsSheetOf(sheet, rowset, n) ==
  \/ \E k \in 1..n : \E rows \in [START_ROW..(START_ROW + k - 1) -> rowset] :
       sheet = [max_row |-> START_ROW + k - 1, rows |-> rows]
  \/ \E m \in {0, START_ROW - 1} : sheet = [max_row |-> m, rows |-> <<>>]

\* A path is [dir, stem, ext]; Path.name is stem + ext.
PathOf(dir, stem, ext) == [dir |-> dir, stem |-> stem, ext |-> ext]
NameOf(path) == <<path.stem, path.ext>>

\* The files under INPUT_DIR a run may find, in the order sorted() gives them.
InputPaths ==
  <<PathOf("d1", "a", ".xls"), PathOf("d1", "b", ".xlsx"),
    PathOf("d2", "a", ".xls"), PathOf("d2", "c", ".xlsm")>>

Stems == {InputPaths[k].stem : k \in 1..Len(InputPaths)}

\* A value the locals of an earlier call may have left behind.
StaleText == Str(<<"O", "l", "d">>)

\* process_workbook alone: a workbook has been loaded (line 253) and the locals
\* hold whatever an earlier call left.
SheetInit ==
  /\ files = <<PathOf("d1", "a", ".xlsx")>>
  /\ has_pywin32 = FALSE
  /\ converted_dir = [stem \in Stems |-> None]
  /\ pc = "pw_init"
  /\ i = 1
  /\ all_records = <<>>
  /\ processed = 0
  /\ converted = 0
  /\ failed = <<>>
  /\ excel = "none"
  /\ elapsed = 0
  /\ path_xlsx = PathOf("d1", "a", ".xlsx")
  /\ source_file_name = NameOf(PathOf("d1", "a", ".xlsx"))
  /\ IsSheetOf(ws, SheetRows, MaxRows)
  /\ records = <<>>
  /\ rec_rows = <<>>
  /\ last_equip_tag = StaleText
  /\ last_equip_desc = StaleText
  /\ max_row = 0
  /\ r = START_ROW
  /\ origin = <<>>
  /\ attempts = <<>>
  /\ call = NoCall
  /\ ret = Pending

SheetNext == PWInit \/ PWLoopBody \/ PWLoopEnd

SheetSpec == SheetInit /\ [][SheetNext]_vars

\* process_workbook is sequential code without a blocking call: while a
\* statement is left to run, one runs.
SheetLiveSpec == SheetInit /\ [][SheetNext]_vars /\ WF_vars(SheetNext)

\* ------------------------------------------------------------ batch inputs

MaxFiles == 3

\* The worksheet whose rows from START_ROW on are those of the sequence rows.
SheetWith(rows) ==
  [max_row |-> START_ROW + Len(rows) - 1,
   rows |-> [q \in START_ROW..(START_ROW + Len(rows) - 1) |-> rows[q - START_ROW + 1]]]

\* The workbooks the files of a batch may hold.
BatchSheets ==
  { SheetWith(<<R_EquipSrc, R_SrcOnly>>),
    SheetWith(<<R_SrcOnly>>),
    SheetWith(<<R_SrcOnly, R_EquipSrc>>),
    SheetWith(<<R_EquipOnly, R_FooterA, R_SrcOnly>>),
    [max_row |-> 0, rows |-> <<>>] }

\* The S-th elements of seq, in order (S a set of indices).
RECURSIVE Pick(_, _)
Pick(seq, S) ==
  IF S = {} THEN <<>>
  ELSE LET m == CHOOSE x \in S : \A y \in S : x <= y IN
       <<seq[m]>> \o Pick(seq, S \ {m})

\* The time Workbooks.Open may take, in seconds.
OpenDurations == {1, XLS_CONVERT_TIMEOUT_SEC, XLS_CONVERT_TIMEOUT_SEC + 1}

ERR_PYWIN32 == "Para ler .xls, instale pywin32: python -m pip install pywin32"
ERR_TIMEOUT == "Timeout convertendo .xls (> 40s)"
ERR_COM == "com_error"
ERR_LOAD == "load_workbook error"

\* ------------------------------------------------------------------- main

\* f of line 341.
CurrentFile == files[i]

\* CONVERTED_DIR / (xls_path.stem + ".xlsx"), line 180.
OutPath(xls_path) == PathOf("convertidos", xls_path.stem, ".xlsx")

\* An except clause that records the failure and ends the loop.
MainExcept_Abort(err) ==
  /\ failed' = Append(failed, <<NameOf(files[i]), err>>)
  /\ attempts' = Append(attempts, [file |-> i, err |-> err, recs |-> <<>>])
  /\ i' = Len(files) + 1
  /\ pc' = "main_loop"
  /\ UNCHANGED <<fixedVars, all_records, processed, converted, origin>>

\* Lines 355-357: an exception raised while file i is handled reaches main's
\* except clause, which records it; the loop goes on with the next file.
MainExcept(err) ==
  /\ failed' = Append(failed, <<NameOf(CurrentFile), err>>)
  /\ attempts' = Append(attempts, [file |-> i, err |-> err, recs |-> <<>>])
  /\ i' = i + 1
  /\ pc' = "main_loop"
  /\ UNCHANGED <<fixedVars, all_records, processed, converted, origin>>

\* Lines 341-350: the next file; a .xls is converted first.
MainLoop ==
  /\ pc = "main_loop"
  /\ i <= Len(files)
  /\ IF CurrentFile.ext = ".xls"
     THEN /\ pc' = "conv_entry"
          /\ UNCHANGED pwArgs
     ELSE /\ path_xlsx' = CurrentFile
          /\ source_file_name' = NameOf(CurrentFile)
          /\ pc' = "pw_load"
          /\ UNCHANGED ws
  /\ UNCHANGED <<mainVars, convVars, pwVars, histVars>>

\* Lines 347-348: convert_xls_to_xlsx returned.
MainConverted ==
  /\ pc = "main_converted"
  /\ converted' = converted + 1
  /\ path_xlsx' = OutPath(CurrentFile)
  /\ source_file_name' = NameOf(CurrentFile)
  /\ pc' = "pw_load"
  /\ UNCHANGED <<fixedVars, converted_dir, i, all_records, processed, failed>>
  /\ UNCHANGED <<convVars, ws, pwVars, histVars>>

\* An extend that puts the new records in front.
Extend_Front(list, recs) == recs \o list

\* Line 352: list.extend.
Extend(list, recs) == list \o recs

\* A main that extends all_records and forgets to count the file.
MainExtend_NoCount ==
  /\ pc = "pw_return"
  /\ all_records' = Extend(all_records, records)
  /\ origin' = Extend(origin, [k \in 1..Len(rec_rows) |-> <<i, rec_rows[k]>>])
  /\ attempts' = Append(attempts, [file |-> i, err |-> "", recs |-> records])
  /\ i' = i + 1
  /\ pc' = "main_loop"
  /\ UNCHANGED <<fixedVars, converted_dir, converted, failed, processed>>
  /\ UNCHANGED <<convVars, pwArgs, pwVars>>

\* Lines 352-353: process_workbook returned recs.
MainExtend ==
  /\ pc = "pw_return"
  /\ all_records' = Extend(all_records, records)
  /\ processed' = processed + 1
  /\ origin' = Extend(origin, [k \in 1..Len(rec_rows) |-> <<i, rec_rows[k]>>])
  /\ attempts' = Append(attempts, [file |-> i, err |-> "", recs |-> records])
  /\ i' = i + 1
  /\ pc' = "main_loop"
  /\ UNCHANGED <<fixedVars, converted_dir, converted, failed>>
  /\ UNCHANGED <<convVars, pwArgs, pwVars>>

\* Lines 341, 359-385: every file was handled; the output is written.
MainDone ==
  /\ pc = "main_loop"
  /\ i > Len(files)
  /\ pc' = "done"
  /\ UNCHANGED <<mainVars, convVars, pwArgs, pwVars, histVars>>

\* ---------------------------------------------------- convert_xls_to_xlsx

\* Lines 179-201: reuse a converted file that exists; else import win32com and
\* start Excel.
ConvEntry ==
  /\ pc = "conv_entry"
  /\ IF converted_dir[CurrentFile.stem] # None
     THEN /\ pc' = "main_converted"
          /\ UNCHANGED <<mainVars, convVars, histVars>>
     ELSE IF ~has_pywin32
     THEN /\ MainExcept(ERR_PYWIN32)
          /\ UNCHANGED <<converted_dir, convVars>>
     ELSE /\ excel' = "running"
          /\ elapsed' = 0
          /\ pc' = "conv_open"
          /\ UNCHANGED <<mainVars, histVars>>
  /\ UNCHANGED <<pwArgs, pwVars>>

\* Lines 206-213, 220-243: Workbooks.Open returns after d seconds; the timeout is
\* tested once, after it returned.
ConvOpenReturns ==
  /\ pc = "conv_open"
  /\ excel = "running"
  /\ \E d \in OpenDurations :
       /\ elapsed' = d
       /\ IF d > XLS_CONVERT_TIMEOUT_SEC
          THEN /\ excel' = "killed"
               /\ MainExcept(ERR_TIMEOUT)
               /\ UNCHANGED converted_dir
          ELSE /\ pc' = "conv_save"
               /\ UNCHANGED <<mainVars, excel, histVars>>
  /\ UNCHANGED <<pwArgs, pwVars>>

\* Lines 206, 234-243: Workbooks.Open raises; finally quits Excel.
ConvOpenRaises ==
  /\ pc = "conv_open"
  /\ excel = "running"
  /\ excel' = "quit"
  /\ MainExcept(ERR_COM)
  /\ UNCHANGED <<converted_dir, elapsed, pwArgs, pwVars>>

\* Line 206: Excel waits on a prompt and Workbooks.Open never returns.
ConvOpenHangs ==
  /\ pc = "conv_open"
  /\ excel = "running"
  /\ excel' = "hung"
  /\ UNCHANGED <<mainVars, pc, elapsed, pwArgs, pwVars, histVars>>

\* Lines 216-218, 234-245: SaveAs writes the workbook of the .xls file under
\* CONVERTED_DIR; finally quits Excel.
ConvSave ==
  /\ pc = "conv_save"
  /\ excel = "running"
  /\ \E sheet \in BatchSheets :
       converted_dir' =
         [converted_dir EXCEPT ![CurrentFile.stem] = [src |-> CurrentFile, sheet |-> sheet]]
  /\ excel' = "quit"
  /\ pc' = "main_converted"
  /\ UNCHANGED <<fixedVars, i, all_records, processed, converted, failed>>
  /\ UNCHANGED <<elapsed, pwArgs, pwVars, histVars>>

\* Lines 216, 234-243: SaveAs raises; finally quits Excel.
ConvSaveRaises ==
  /\ pc = "conv_save"
  /\ excel = "running"
  /\ excel' = "quit"
  /\ MainExcept(ERR_COM)
  /\ UNCHANGED <<converted_dir, elapsed, pwArgs, pwVars>>

\* Lines 252-253: load_workbook reads the file at path_xlsx, or raises.
PWLoad ==
  /\ pc = "pw_load"
  /\ \/ /\ IF path_xlsx.dir = "convertidos"
           THEN ws' = converted_dir[path_xlsx.stem].sheet
           ELSE ws' \in BatchSheets
        /\ pc' = "pw_init"
        /\ UNCHANGED <<mainVars, path_xlsx, source_file_name, histVars>>
     \/ /\ MainExcept(ERR_LOAD)
        /\ UNCHANGED <<converted_dir, pwArgs>>
  /\ UNCHANGED <<convVars, pwVars>>

Init ==
  /\ \E S \in SUBSET (1..Len(InputPaths)) :
       /\ Cardinality(S) \in 1..MaxFiles
       /\ files = Pick(InputPaths, S)
  /\ has_pywin32 \in BOOLEAN
  /\ converted_dir = [stem \in Stems |-> None]
  /\ pc = "main_loop"
  /\ i = 1
  /\ all_records = <<>>
  /\ processed = 0
  /\ converted = 0
  /\ failed = <<>>
  /\ excel = "none"
  /\ elapsed = 0
  /\ path_xlsx = PathOf("", "", "")
  /\ source_file_name = <<"", "">>
  /\ ws = [max_row |-> 0, rows |-> <<>>]
  /\ records = <<>>
  /\ rec_rows = <<>>
  /\ last_equip_tag = None
  /\ last_equip_desc = None
  /\ max_row = 0
  /\ r = START_ROW
  /\ origin = <<>>
  /\ attempts = <<>>
  /\ call = NoCall
  /\ ret = Pending

Next ==
  \/ MainLoop
  \/ ConvEntry
  \/ ConvOpenReturns
  \/ ConvOpenRaises
  \/ ConvOpenHangs
  \/ ConvSave
  \/ ConvSaveRaises
  \/ MainConverted
  \/ PWLoad
  \/ PWInit
  \/ PWLoopBody
  \/ PWLoopEnd
  \/ MainExtend
  \/ MainDone

Spec == Init /\ [][Next]_vars

\* ------------------------------------------------- the utility functions

MaxTextLen == 3

\* The characters of the texts normalize_cell is called with.
TextAlphabet == {" ", "\n", "\r", "-", "/", "n", "a", "N", "A", "x"}

\* The letter-case variants of a token.
CaseVariants(tok) ==
  { [k \in 1..Len(tok) |-> IF k \in M THEN UpperChar(tok[k]) ELSE tok[k]] :
      M \in SUBSET (1..Len(tok)) }

\* Whitespace around a text.
Pads == {<<>>, <<" ">>, <<"\n">>, <<"\t", " ">>, <<"\r", "\n">>}

\* Each sentinel token in every letter case, alone, with whitespace around it,
\* and with another character before or after it.
DecoratedTokens ==
  UNION { { left \o v \o right : left \in Pads, right \in Pads }
            \cup { v \o <<"x">>, <<"x">> \o v, v \o <<" ">> \o v }
          : v \in UNION { CaseVariants(tok) : tok \in EMPTY_TOKENS } }

NumberValues ==
  {IntV(n) : n \in {-12, 0, 3, 40}} \cup {FloatV(w, d) : w \in {0, 3, 40}, d \in {0, 5}}

\* Texts with a run of whitespace inside them, with whitespace around them.
RunTexts ==
  { left \o <<"x">> \o mid \o <<"n", "a">> \o right :
      left \in Pads, right \in Pads,
      mid \in {<<"\n", "\n">>, <<" ", "\r", "\n">>, <<"\t", " ">>, <<"\r">>} }

\* The cells get_group is called on.
GroupCells ==
  {None, Str(<<"-">>), Str(<<"R", "e", "d", "e">>), Str(<<" ", "a", "\n", "\n", "b">>)}

\* The column lists get_group is called with: the eight configured ones, no
\* column, and H + I.
GroupCols ==
  {COLS_EQUIP_TAG, COLS_EQUIP_DESC, COLS_FONTE_TAG, COLS_FONTE_DESC, COLS_COMO_BLOQUEAR,
   COLS_ONDE_BLOQUEAR, COLS_TIPO_BLOQUEIO, COLS_COMO_DESBLOQUEAR, <<>>, <<"H", "I">>}

\* The columns the row tests are probed on: A (a marker column outside
\* ALL_RELEVANT_COLS), B and C (marker columns inside it, next to each other in
\* check_cols), F (inside it, no marker column), V (neither), AA (both).
ProbeCols == {"A", "B", "C", "F", "V", "AA"}

\* The cells of a probed row: empty, a sentinel, the two halves of a footer
\* keyword, and a footer keyword in lower case inside a longer text.
ProbeCells ==
  {None, Str(<<"n", "/", "a">>), Str(<<"L", "a", "y">>), Str(<<"o", "u", "t">>),
   Str(<<"p", "<a-acute>", "g", "i", "n", "a", " ", "2">>)}

\* One call of normalize_cell, get_group, row_has_any_data or
\* row_has_footer_marker, on arguments of the sets above; get_group reads row
\* START_ROW of a worksheet whose other columns are all empty or all hold the
\* same text.
PureInit ==
  /\ \/ \E k \in 0..MaxTextLen : \E s \in [1..k -> TextAlphabet] :
          call = [fn |-> "normalize_cell", value |-> Str(s)]
     \/ \E s \in DecoratedTokens : call = [fn |-> "normalize_cell", value |-> Str(s)]
     \/ \E s \in RunTexts : call = [fn |-> "normalize_cell", value |-> Str(s)]
     \/ \E v \in NumberValues \cup {None} : call = [fn |-> "normalize_cell", value |-> v]
     \/ \E fn \in {"row_has_any_data", "row_has_footer_marker"} :
          \E cells \in [ProbeCols -> ProbeCells] :
            call = [fn |-> fn,
                    ws |-> SheetWith(<<Row([c \in {d \in ProbeCols : cells[d] # None}
                                              |-> cells[c]])>>),
                    row |-> START_ROW]
     \/ \E cols \in GroupCols : \E cells \in [Range(cols) -> GroupCells] :
          \E other \in {None, Str(<<"L", "A", "Y", "O", "U", "T">>)} :
            call = [fn |-> "get_group",
                    ws |-> SheetWith(<<[c \in Columns |->
                                          IF c \in Range(cols) THEN cells[c] ELSE other]>>),
                    row |-> START_ROW,
                    cols |-> cols]
  /\ ret = Pending
  /\ files = <<PathOf("d1", "a", ".xlsx")>>
  /\ has_pywin32 = FALSE
  /\ converted_dir = [stem \in Stems |-> None]
  /\ pc = "call"
  /\ i = 1
  /\ all_records = <<>>
  /\ processed = 0
  /\ converted = 0
  /\ failed = <<>>
  /\ excel = "none"
  /\ elapsed = 0
  /\ path_xlsx = PathOf("", "", "")
  /\ source_file_name = <<"", "">>
  /\ ws = [max_row |-> 0, rows |-> <<>>]
  /\ records = <<>>
  /\ rec_rows = <<>>
  /\ last_equip_tag = None
  /\ last_equip_desc = None
  /\ max_row = 0
  /\ r = START_ROW
  /\ origin = <<>>
  /\ attempts = <<>>

pureFrame ==
  <<files, has_pywin32, converted_dir, i, all_records, processed, converted, failed,
    convVars, pwArgs, pwVars, histVars>>

CallNormalizeCell ==
  /\ pc = "call"
  /\ call.fn = "normalize_cell"
  /\ ret' = normalize_cell(call.value)
  /\ pc' = "returned"
  /\ UNCHANGED <<call, pureFrame>>

CallGetGroup ==
  /\ pc = "call"
  /\ call.fn = "get_group"
  /\ ret' = get_group(call.ws, call.row, call.cols)
  /\ pc' = "returned"
  /\ UNCHANGED <<call, pureFrame>>

CallRowHasAnyData ==
  /\ pc = "call"
  /\ call.fn = "row_has_any_data"
  /\ ret' = BoolV(row_has_any_data(call.ws, call.row))
  /\ pc' = "returned"
  /\ UNCHANGED <<call, pureFrame>>

CallRowHasFooterMarker ==
  /\ pc = "call"
  /\ call.fn = "row_has_footer_marker"
  /\ ret' = BoolV(row_has_footer_marker(call.ws, call.row))
  /\ pc' = "returned"
  /\ UNCHANGED <<call, pureFrame>>

PureNext ==
  \/ CallNormalizeCell
  \/ CallGetGroup
  \/ CallRowHasAnyData
  \/ CallRowHasFooterMarker

PureSpec == PureInit /\ [][PureNext]_vars

\* ----------------------------------------------------------- properties

\* records and rec_rows are those of the worksheet ws.
InWorkbook == pc \in {"pw_loop", "pw_return"}

\* The rows of ws the loop may visit.
SheetRowNumbers == START_ROW..MaxRowOf(ws)

\* The row has valid energy-source data: it is no footer, and one of its six
\* energy-source groups is not None.
ValidSourceRow(q) ==
  /\ ~row_has_footer_marker(ws, q)
  /\ \E cols \in {COLS_FONTE_TAG, COLS_FONTE_DESC, COLS_COMO_BLOQUEAR, COLS_ONDE_BLOQUEAR,
                    COLS_TIPO_BLOQUEIO, COLS_COMO_DESBLOQUEAR} :
       get_group(ws, q, cols) # None

NoSourceGroup(q) ==
  \A cols \in {COLS_FONTE_TAG, COLS_FONTE_DESC, COLS_COMO_BLOQUEAR, COLS_ONDE_BLOQUEAR,
                 COLS_TIPO_BLOQUEIO, COLS_COMO_DESBLOQUEAR} :
    get_group(ws, q, cols) = None

\* C1: the list process_workbook returns holds no record of the first footer
\* row of the worksheet or of any row below it.
C1_FooterStopsExtraction ==
  pc = "pw_return" =>
    /\ Len(rec_rows) = Len(records)
    /\ \A f \in SheetRowNumbers :
         row_has_footer_marker(ws, f) => \A k \in 1..Len(rec_rows) : rec_rows[k] < f

\* process_workbook returned records of the rows above a footer row, and a row
\* below the footer row holds valid energy-source data.
C1_Witness ==
  /\ pc = "pw_return"
  /\ records # <<>>
  /\ \E f \in SheetRowNumbers : \E q \in SheetRowNumbers :
       /\ row_has_footer_marker(ws, f)
       /\ q > f
       /\ ValidSourceRow(q)

\* The value a fill-down field has on row q: the row's own group if not None,
\* else that of the nearest row above that has one, else None.
ExpectedFill(cols, q) ==
  LET above == {p \in START_ROW..q : get_group(ws, p, cols) # None} IN
  IF above = {} THEN None
  ELSE get_group(ws, CHOOSE p \in above : \A o \in above : o <= p, cols)

\* C2: the equipment tag and the equipment description of every record are the
\* row's own value, else the value of the nearest earlier row of the worksheet
\* that has one, else None.
C2_FillDown ==
  InWorkbook =>
    \A k \in 1..Len(records) :
      /\ records[k][K_EQUIP_TAG] = ExpectedFill(COLS_EQUIP_TAG, rec_rows[k])
      /\ records[k][K_EQUIP_DESC] = ExpectedFill(COLS_EQUIP_DESC, rec_rows[k])

\* Four rows whose own equipment tags are None, X, None, None gave four records
\* with the tags None, X, X, X.
C2_Witness ==
  /\ pc = "pw_return"
  /\ rec_rows = <<START_ROW, START_ROW + 1, START_ROW + 2, START_ROW + 3>>
  /\ get_group(ws, START_ROW, COLS_EQUIP_TAG) = None
  /\ get_group(ws, START_ROW + 1, COLS_EQUIP_TAG) = Str(<<"E", "2">>)
  /\ get_group(ws, START_ROW + 2, COLS_EQUIP_TAG) = None
  /\ get_group(ws, START_ROW + 3, COLS_EQUIP_TAG) = None
  /\ [k \in 1..4 |-> records[k][K_EQUIP_TAG]]
       = <<None, Str(<<"E", "2">>), Str(<<"E", "2">>), Str(<<"E", "2">>)>>

\* C3: every record has an energy-source field that is not None, and a visited
\* row whose six energy-source groups are all None gave no record.
C3_SourceInfoRequired ==
  InWorkbook =>
    /\ \A k \in 1..Len(records) :
         \E key \in {K_FONTE_TAG, K_FONTE_DESC, K_COMO_BLOQUEAR, K_ONDE_BLOQUEAR,
                     K_TIPO_BLOQUEIO, K_COMO_DESBLOQUEAR} :
           records[k][key] # None
    /\ \A q \in START_ROW..(r - 1) :
         NoSourceGroup(q) => \A k \in 1..Len(rec_rows) : rec_rows[k] # q

\* A visited row with an equipment tag and no energy-source group gave no record,
\* while another row of the worksheet did.
C3_Witness ==
  /\ pc = "pw_return"
  /\ records # <<>>
  /\ \E q \in START_ROW..(r - 1) :
       /\ get_group(ws, q, COLS_EQUIP_TAG) # None
       /\ NoSourceGroup(q)
       /\ \A k \in 1..Len(rec_rows) : rec_rows[k] # q

\* C8: the six energy-source fields of every record are the groups of the
\* record's own row, each over the columns of its own field.
C8_SourceFieldsFromOwnRow ==
  InWorkbook =>
    \A k \in 1..Len(records) :
      /\ records[k][K_FONTE_TAG] = get_group(ws, rec_rows[k], <<"E", "F", "G">>)
      /\ records[k][K_FONTE_DESC] = get_group(ws, rec_rows[k], <<"H", "I", "J", "K", "L">>)
      /\ records[k][K_COMO_BLOQUEAR] = get_group(ws, rec_rows[k], <<"M", "N">>)
      /\ records[k][K_ONDE_BLOQUEAR] = get_group(ws, rec_rows[k], <<"O", "P", "Q", "R", "S">>)
      /\ records[k][K_TIPO_BLOQUEIO] = get_group(ws, rec_rows[k], <<"T", "U">>)
      /\ records[k][K_COMO_DESBLOQUEAR] = get_group(ws, rec_rows[k], <<"Z", "AA">>)

\* A record carries the equipment tag of an earlier row, and the row above it has
\* energy-source groups the record does not have.
C8_Witness ==
  /\ pc = "pw_return"
  /\ \E k \in 2..Len(records) :
       /\ get_group(ws, rec_rows[k], COLS_EQUIP_TAG) = None
       /\ records[k][K_EQUIP_TAG] # None
       /\ rec_rows[k - 1] = rec_rows[k] - 1
       /\ records[k - 1][K_COMO_BLOQUEAR] # None
       /\ records[k][K_COMO_BLOQUEAR] = None

\* The files of the run that raised, and those that did not.
FailedFiles == {k \in 1..Len(attempts) : attempts[k].err # ""}
GoodFiles == {k \in 1..Len(attempts) : attempts[k].err = ""}

\* The concatenation of the sequences of seqs.
RECURSIVE Concat(_)
Concat(seqs) == IF seqs = <<>> THEN <<>> ELSE Head(seqs) \o Concat(Tail(seqs))

\* C4: when main's loop is over every file was attempted; failed holds one
\* <<name, error>> pair per file that raised, in processing order; processed
\* counts the other files; all_records is the concatenation of their record
\* lists in processing order and holds no record of a file that raised.
C4_FailureIsolation ==
  pc = "done" =>
    /\ Len(attempts) = Len(files)
    /\ \A k \in 1..Len(attempts) : attempts[k].file = k
    /\ failed = Pick([k \in 1..Len(attempts) |-> <<NameOf(files[k]), attempts[k].err>>],
                     FailedFiles)
    /\ processed = Cardinality(GoodFiles)
    /\ all_records = Concat(Pick([k \in 1..Len(attempts) |-> attempts[k].recs], GoodFiles))
    /\ \A j \in 1..Len(origin) : origin[j][1] \in GoodFiles

\* Three files, the second of which failed to load; the first and the third gave
\* records.
C4_Witness ==
  /\ pc = "done"
  /\ Len(files) = 3
  /\ processed = 2
  /\ failed = <<<<NameOf(files[2]), ERR_LOAD>>>>
  /\ attempts[1].recs # <<>>
  /\ attempts[3].recs # <<>>
  /\ all_records = attempts[1].recs \o attempts[3].recs

\* seq is strictly ascending under less.
StrictlyAscending(seq, less(_, _)) ==
  \A k \in 1..(Len(seq) - 1) : less(seq[k], seq[k + 1])

OriginLess(a, b) == a[1] < b[1] \/ (a[1] = b[1] /\ a[2] < b[2])
RowLess(a, b) == a < b

\* C5: the records of a worksheet are in strictly ascending order of their rows,
\* and all_records holds the records file after file, each file's records in
\* that same order and under that file's name.
C5_RowOrder ==
  /\ InWorkbook =>
       /\ Len(rec_rows) = Len(records)
       /\ StrictlyAscending(rec_rows, RowLess)
  /\ Len(origin) = Len(all_records)
  /\ StrictlyAscending(origin, OriginLess)
  /\ \A j \in 1..Len(origin) : all_records[j][K_ORIGEM] = NameOf(files[origin[j][1]])

\* Two files gave two records each.
C5_Witness ==
  /\ pc = "done"
  /\ Len(origin) = 4
  /\ origin[1][1] = origin[2][1]
  /\ origin[3][1] = origin[4][1]
  /\ origin[2][1] # origin[3][1]

\* C6: a record of a row that has no equipment tag of its own, and no row above
\* it in its own worksheet that has one, has no equipment tag, whatever the files
\* before it held; and so for the equipment description.
C6_NoCrossFileFillDown ==
  InWorkbook =>
    \A k \in 1..Len(records) :
      /\ (\A q \in START_ROW..rec_rows[k] : get_group(ws, q, COLS_EQUIP_TAG) = None)
           => records[k][K_EQUIP_TAG] = None
      /\ (\A q \in START_ROW..rec_rows[k] : get_group(ws, q, COLS_EQUIP_DESC) = None)
           => records[k][K_EQUIP_DESC] = None

\* The first file gave a record with an equipment tag, and the file being
\* processed after it gave a record without one.
C6_Witness ==
  /\ pc = "pw_return"
  /\ i > 1
  /\ attempts[i - 1].recs # <<>>
  /\ attempts[i - 1].recs[Len(attempts[i - 1].recs)][K_EQUIP_TAG] # None
  /\ records # <<>>
  /\ records[1][K_EQUIP_TAG] = None

\* C7: a conversion never leaves main stuck: when Excel does not return from
\* opening the workbook the program still takes a step; and a conversion whose
\* time ran out ended with Excel killed and the timeout recorded for a .xls file.
C7_ConversionBounded ==
  /\ excel = "hung" => ENABLED Next
  /\ elapsed > XLS_CONVERT_TIMEOUT_SEC =>
       /\ excel = "killed"
       /\ \E k \in 1..Len(attempts) :
            /\ files[k].ext = ".xls"
            /\ attempts[k].err = ERR_TIMEOUT
            /\ \E j \in 1..Len(failed) : failed[j] = <<NameOf(files[k]), ERR_TIMEOUT>>

\* What the call of get_group is to return: None when every cell of cols on the
\* row normalizes to None, else the normalized cells that are not None, in the
\* order of cols, with one space between them.
ExpectedGroup(sheet, row, cols) ==
  LET vals == [k \in 1..Len(cols) |-> normalize_cell(Cell(sheet, cols[k], row))]
      kept == Pick(vals, {k \in 1..Len(cols) : vals[k] # None})
  IN  IF kept = <<>> THEN None
      ELSE Str(Join([k \in 1..Len(kept) |-> kept[k].s], <<" ">>))

\* C9: get_group returns None exactly when every cell of its columns normalizes
\* to None, and otherwise the normalized cells that are not None, in column
\* order, joined by one space.
C9_GetGroup ==
  (pc = "returned" /\ call.fn = "get_group") =>
    ret = ExpectedGroup(call.ws, call.row, call.cols)

\* get_group over H + I, with "Rede" in H and "-" in I, returned "Rede".
C9_Witness ==
  /\ pc = "returned"
  /\ call.fn = "get_group"
  /\ call.cols = <<"H", "I">>
  /\ Cell(call.ws, "H", call.row) = Str(<<"R", "e", "d", "e">>)
  /\ Cell(call.ws, "I", call.row) = Str(<<"-">>)
  /\ ret = Str(<<"R", "e", "d", "e">>)

\* The text is empty, or whitespace only, or a sentinel token in some letter
\* case with whitespace around it.
AbsentText(s) ==
  \/ \A k \in 1..Len(s) : s[k] \in Whitespace
  \/ \E a \in 0..Len(s) : \E b \in 0..(Len(s) - a) :
       /\ \A k \in 1..a : s[k] \in Whitespace
       /\ \A k \in (Len(s) - b + 1)..Len(s) : s[k] \in Whitespace
       /\ Lower(SubSeq(s, a + 1, Len(s) - b)) \in EMPTY_TOKENS

\* C10: normalize_cell returns None for None, for an empty or whitespace-only
\* text and for a sentinel token in any letter case with any whitespace around
\* it, and a non-empty text for every other text.
C10_NormalizeAbsent ==
  (pc = "returned" /\ call.fn = "normalize_cell" /\ call.value.t \in {"None", "str"}) =>
    IF call.value = None \/ AbsentText(call.value.s)
    THEN ret = None
    ELSE ret.t = "str" /\ ret.s # <<>>

\* normalize_cell returned None for " NuLl\n".
C10_Witness ==
  /\ pc = "returned"
  /\ call.fn = "normalize_cell"
  /\ call.value = Str(<<" ", "N", "u", "L", "l", "\n">>)
  /\ ret = None

\* The text has no whitespace at either end, no newline or carriage return, no
\* two whitespace characters in a row, and is no sentinel token in any letter
\* case.
CleanText(s) ==
  /\ s # <<>>
  /\ s[1] \notin Whitespace
  /\ s[Len(s)] \notin Whitespace
  /\ \A k \in 1..Len(s) : s[k] \notin {"\n", "\r"}
  /\ \A k \in 1..(Len(s) - 1) : ~(s[k] \in Whitespace /\ s[k + 1] \in Whitespace)
  /\ \A tok \in EMPTY_TOKENS : Lower(s) # tok

\* C11: normalize_cell applied to what normalize_cell returned gives that same
\* value, and a result that is not None is a clean text: trimmed, without
\* newline or carriage return, without a run of whitespace, and no sentinel token.
C11_NormalizeIdempotent ==
  (pc = "returned" /\ call.fn = "normalize_cell") =>
    /\ normalize_cell(ret) = ret
    /\ ret # None => (ret.t = "str" /\ CleanText(ret.s))

\* normalize_cell turned "\r\nx \r\nna\t " into "x na".
C11_Witness ==
  /\ pc = "returned"
  /\ call.fn = "normalize_cell"
  /\ call.value = Str(<<"\r", "\n", "x", " ", "\r", "\n", "n", "a", "\t", " ">>)
  /\ ret = Str(<<"x", " ", "n", "a">>)

\* C12: ALL_RELEVANT_COLS is the set of the columns B to U, Z and AA, and
\* row_has_any_data returns True exactly when a cell of the row in one of those
\* columns normalizes to a value that is not None.
C12_RowHasAnyData ==
  /\ ALL_RELEVANT_COLS =
       {"B", "C", "D", "E", "F", "G", "H", "I", "J", "K", "L", "M", "N", "O", "P", "Q",
        "R", "S", "T", "U", "Z", "AA"}
  /\ (pc = "returned" /\ call.fn = "row_has_any_data") =>
       ret = BoolV(\E c \in {"B", "C", "D", "E", "F", "G", "H", "I", "J", "K", "L", "M",
                              "N", "O", "P", "Q", "R", "S", "T", "U", "Z", "AA"} :
                     normalize_cell(Cell(call.ws, c, call.row)) # None)

\* row_has_any_data returned False for a row with texts in A and V, a sentinel
\* in B and nothing else.
C12_Witness ==
  /\ pc = "returned"
  /\ call.fn = "row_has_any_data"
  /\ Cell(call.ws, "A", call.row) = Str(<<"L", "a", "y">>)
  /\ Cell(call.ws, "V", call.row) = Str(<<"o", "u", "t">>)
  /\ Cell(call.ws, "B", call.row) = Str(<<"n", "/", "a">>)
  /\ \A c \in {"C", "F", "AA"} : Cell(call.ws, c, call.row) = None
  /\ ret = BoolV(FALSE)

\* The cell's normalized text, in upper case, contains a footer keyword.
CellHasKeyword(sheet, c, row) ==
  LET v == normalize_cell(Cell(sheet, c, row)) IN
  /\ v # None
  /\ \E k \in 1..Len(FOOTER_KEYWORDS) : Contains(Upper(v.s), FOOTER_KEYWORDS[k])

\* C13: row_has_footer_marker returns True exactly when one single cell of the
\* row in a marker column (A, B, C, D, E, H, M, O, T, Z, AA) has a normalized,
\* upper-cased text that contains a footer keyword.
C13_FooterMarker ==
  (pc = "returned" /\ call.fn = "row_has_footer_marker") =>
    ret = BoolV(\E c \in {"A", "B", "C", "D", "E", "H", "M", "O", "T", "Z", "AA"} :
                  CellHasKeyword(call.ws, c, call.row))

\* row_has_footer_marker returned False for a row with "Lay" in B, "out" in C
\* and a keyword in F, which is no marker column.
C13_Witness ==
  /\ pc = "returned"
  /\ call.fn = "row_has_footer_marker"
  /\ Cell(call.ws, "B", call.row) = Str(<<"L", "a", "y">>)
  /\ Cell(call.ws, "C", call.row) = Str(<<"o", "u", "t">>)
  /\ CellHasKeyword(call.ws, "F", call.row)
  /\ ret = BoolV(FALSE)

\* The number a text of decimal digits with an optional minus sign denotes.
RECURSIVE DigitsValue(_)
DigitsValue(s) ==
  IF s = <<>> THEN 0
  ELSE 10 * DigitsValue(SubSeq(s, 1, Len(s) - 1))
         + (CHOOSE d \in 0..9 : Digits[d + 1] = s[Len(s)])

SignedValue(s) == IF Head(s) = "-" THEN -DigitsValue(Tail(s)) ELSE DigitsValue(s)

\* The text is a decimal numeral: an optional minus sign and digits, without a
\* leading zero.
IsNumeral(s) ==
  LET digits == IF s # <<>> /\ Head(s) = "-" THEN Tail(s) ELSE s IN
  /\ digits # <<>>
  /\ \A k \in 1..Len(digits) : digits[k] \in Range(Digits)
  /\ Len(digits) > 1 => digits[1] # "0"

\* C14: normalize_cell never returns None for a number; for a whole number,
\* stored as an int or as a float, it returns the decimal numeral of that number,
\* without a decimal point.
C14_WholeNumbers ==
  (pc = "returned" /\ call.fn = "normalize_cell" /\ call.value.t \in {"int", "float"}) =>
    /\ ret # None
    /\ ret.t = "str"
    /\ (call.value.t = "int" \/ call.value.d = 0) =>
         /\ IsNumeral(ret.s)
         /\ SignedValue(ret.s) = (IF call.value.t = "int" THEN call.value.n ELSE call.value.w)

\* normalize_cell returned "40" for the float 40.0.
C14_Witness ==
  /\ pc = "returned"
  /\ call.fn = "normalize_cell"
  /\ call.value = FloatV(40, 0)
  /\ ret = Str(<<"4", "0">>)

\* The value a fill-down variable holds once the rows up to q were visited.
StoredFill(cols, q) == IF q < START_ROW THEN None ELSE ExpectedFill(cols, q)

\* C15: inside a worksheet the stored equipment tag and description are those
\* of the nearest visited row that has one, whether or not that row gave a
\* record; extraction ends only at a footer row or after the last row; and every
\* visited row with an energy-source group gave a record, also below a blank row.
C15_FillDownBeforeFilter ==
  InWorkbook =>
    /\ last_equip_tag = StoredFill(COLS_EQUIP_TAG, r - 1)
    /\ last_equip_desc = StoredFill(COLS_EQUIP_DESC, r - 1)
    /\ pc = "pw_return" => (r > max_row \/ row_has_footer_marker(ws, r))
    /\ \A q \in START_ROW..(r - 1) :
         ~NoSourceGroup(q) => \E k \in 1..Len(rec_rows) : rec_rows[k] = q

\* A row with an equipment tag and no energy source, a blank row, then a row
\* with an energy source and no equipment tag: the only record is that of the
\* third row, under the first row's tag and description.
C15_Witness ==
  /\ pc = "pw_return"
  /\ ws.max_row >= START_ROW + 2
  /\ ws.rows[START_ROW] = R_EquipOnly
  /\ ws.rows[START_ROW + 1] = BlankRow
  /\ ws.rows[START_ROW + 2] = R_SrcOnly
  /\ rec_rows # <<>>
  /\ rec_rows[1] = START_ROW + 2
  /\ records[1][K_EQUIP_TAG] = Str(<<"E", "1">>)
  /\ records[1][K_EQUIP_DESC] = Str(<<"P", " ", "1">>)

\* C16: the loop never goes past a row with a footer marker, also when that row
\* has no cell in ALL_RELEVANT_COLS: every row it went past has no footer marker,
\* and when it returns before the last row it stands on a footer row.
C16_FooterBeforeBlank ==
  InWorkbook =>
    /\ \A q \in START_ROW..(r - 1) : ~row_has_footer_marker(ws, q)
    /\ (pc = "pw_return" /\ r <= max_row) => row_has_footer_marker(ws, r)

\* process_workbook returned at a row whose only cell is a footer keyword in
\* column A, with records from the rows above it and a valid row below it.
C16_Witness ==
  /\ pc = "pw_return"
  /\ r < max_row
  /\ ws.rows[r] = R_FooterA
  /\ ~row_has_any_data(ws, r)
  /\ records # <<>>
  /\ ValidSourceRow(r + 1)

\* C19: process_workbook returns; its loop variable goes from START_ROW upward
\* one row at a time and never past the row after the last one; every record is
\* of a row between START_ROW and the last row; and a worksheet whose last row
\* is above START_ROW gives no record.
C19_Terminates ==
  /\ <>(pc = "pw_return")
  /\ [](InWorkbook =>
         /\ r \in START_ROW..((IF ws.max_row < START_ROW THEN START_ROW ELSE ws.max_row) + 1)
         /\ \A k \in 1..Len(rec_rows) : rec_rows[k] \in START_ROW..ws.max_row
         /\ Len(records) = Len(rec_rows)
         /\ ws.max_row < START_ROW => records = <<>>)
  /\ [][pc = "pw_loop" =>
          \/ pc' = "pw_loop" /\ r' = r + 1
          \/ pc' = "pw_return" /\ r' = r]_vars

\* process_workbook returned after the last of four rows, with a record.
C19_Witness ==
  /\ pc = "pw_return"
  /\ ws.max_row = START_ROW + 3
  /\ r = ws.max_row + 1
  /\ records # <<>>

\* C17: while main handles a .xls file, the workbook process_workbook reads
\* under CONVERTED_DIR is the conversion of that very file.
C17_ConvertedFromOwnFile ==
  (pc \in {"pw_load", "pw_init", "pw_loop", "pw_return"} /\ CurrentFile.ext = ".xls") =>
    /\ path_xlsx = OutPath(CurrentFile)
    /\ converted_dir[path_xlsx.stem] # None
    /\ converted_dir[path_xlsx.stem].src = CurrentFile

\* The .xls files of the run whose conversion returned.
ConvertedFiles ==
  {k \in 1..Len(attempts) :
     files[k].ext = ".xls" /\ attempts[k].err \notin {ERR_PYWIN32, ERR_TIMEOUT, ERR_COM}}

\* C18 as stated: after the loop every file is counted once, as processed or as
\* failed; a file is in failed exactly when it contributed no records; converted
\* counts the .xls files whose conversion returned.
C18_AccountingAsStated ==
  pc = "done" =>
    /\ Len(attempts) = Len(files)
    /\ \A k \in 1..Len(attempts) : attempts[k].file = k
    /\ processed = Cardinality(GoodFiles)
    /\ Len(failed) = Cardinality(FailedFiles)
    /\ processed + Len(failed) = Len(files)
    /\ \A k \in 1..Len(attempts) : (k \in FailedFiles) <=> (attempts[k].recs = <<>>)
    /\ converted = Cardinality(ConvertedFiles)
    /\ converted <= Cardinality({k \in 1..Len(files) : files[k].ext = ".xls"})

\* C18, amended: after the loop every file is counted once, as processed or as
\* failed; a file in failed contributed no records (a processed file may have
\* contributed none either); converted counts the .xls files whose conversion
\* returned.
C18_RunAccounting ==
  pc = "done" =>
    /\ Len(attempts) = Len(files)
    /\ \A k \in 1..Len(attempts) : attempts[k].file = k
    /\ processed = Cardinality(GoodFiles)
    /\ Len(failed) = Cardinality(FailedFiles)
    /\ processed + Len(failed) = Len(files)
    /\ \A k \in 1..Len(attempts) : (k \in FailedFiles) => (attempts[k].recs = <<>>)
    /\ \A j \in 1..Len(origin) : origin[j][1] \notin FailedFiles
    /\ converted = Cardinality(ConvertedFiles)
    /\ converted <= Cardinality({k \in 1..Len(files) : files[k].ext = ".xls"})

\* Three files: a converted .xls, a file that failed, and a processed file that
\* gave no record beside one that gave some.
C18_Witness ==
  /\ pc = "done"
  /\ Len(files) = 3
  /\ processed = 2
  /\ Len(failed) = 1
  /\ converted = 1
  /\ \E k \in GoodFiles : attempts[k].recs = <<>>
  /\ \E k \in GoodFiles : attempts[k].recs # <<>>

====
